---- MODULE Spec2Model ----
(***************************************************************************)
(* The user CRUD service of src/index.js: an Express application with four *)
(* routes over one Mongoose model, User, whose schema requires name        *)
(* (String), email (String, unique) and dateOfBirth (Date).                *)
(*                                                                         *)
(* Every handler awaits exactly one Mongoose call, and that call is one    *)
(* atomic single-document (or find) operation of the document store, so a  *)
(* handler is one atomic step; handlers of simultaneous requests are       *)
(* serialised by the order of their storage operations.  A request is      *)
(* received (Receive), handled (CreateUser, DeleteUser, UpdateUser,        *)
(* GetUsers) and its exchange ends (EndRequest).                           *)
(*                                                                         *)
(* The document store is modelled as reachable, with its unique index on   *)
(* email built: the errors that reach a handler's catch block are the      *)
(* Mongoose cast and validation errors and the store's duplicate-key       *)
(* error.  Mongoose is modelled as of its version 6 and later: keys whose  *)
(* value is undefined are removed from an update.                          *)
(* express.json() hands every handler a body object, whose absent keys    *)
(* read as undefined.                                                      *)
(***************************************************************************)
EXTENDS Integers, FiniteSets, Sequences, TLC

(* Number of ObjectIds the model lets the service generate. *)
MaxId == 3

(***************************************************************************)
(* JSON values of a request body and values of a stored document.          *)
(***************************************************************************)
Undefined == [t |-> "undefined", v |-> ""]

Null == [t |-> "null", v |-> ""]

Str(s) == [t |-> "string", v |-> s]

Num(s) == [t |-> "number", v |-> s]

DateVal(s) == [t |-> "date", v |-> s]

(* The values a request may carry for each field of the body. *)
NameInputs == {Undefined, Null, Str(""), Str("ann"), Num("7")}

EmailInputs == {Undefined, Null, Str("a@x"), Str("b@x")}

DateInputs == {Undefined, Null, Str("1990-01-01"), Str("2000-02-02"), Str("bad")}

Bodies == [name : NameInputs, email : EmailInputs, dateOfBirth : DateInputs]

(* The :id path parameter: Malformed stands for a string that is no        *)
(* ObjectId ("zz"), n >= 1 for the 24-digit hexadecimal form of ObjectId n. *)
Malformed == 0

IdParams == {Malformed} \cup (1..MaxId)

Requests ==
    [op : {"createUser"}, body : Bodies]
    \cup [op : {"deleteUser"}, id : IdParams]
    \cup [op : {"updateUser"}, id : IdParams, body : Bodies]
    \cup [op : {"getUsers"}]

NoRequest == [op |-> "none"]

VARIABLES users, nextId, pc, req, res, before, created, pure

vars == <<users, nextId, pc, req, res, before, created, pure>>

(***************************************************************************)
(* JavaScript and Mongoose conversions.                                    *)
(***************************************************************************)

(* !x of JavaScript. *)
Falsy(x) ==
    \/ x.t \in {"undefined", "null"}
    \/ x.t = "string" /\ x.v = ""
    \/ x.t = "number" /\ x.v = "0"

(* The validation of POST /createUser with the test of dateOfBirth left out. *)
MissingNameOrEmail(body) ==
    Falsy(body.name) \/ Falsy(body.email)

(* The validation of POST /createUser. *)
MissingField(body) ==
    Falsy(body.name) \/ Falsy(body.email) \/ Falsy(body.dateOfBirth)

(* mongoose.Types.ObjectId.isValid on a path parameter. *)
isValid(id) == id # Malformed

(* new Date(s).toISOString() for the strings of DateInputs. *)
ParseDate(s) ==
    CASE s = "1990-01-01" -> "1990-01-01T00:00:00.000Z"
      [] s = "2000-02-02" -> "2000-02-02T00:00:00.000Z"
      [] OTHER -> "Invalid Date"

(* new Date(n).toISOString() for a number of milliseconds. *)
EpochDate(n) ==
    CASE n = "0" -> "1970-01-01T00:00:00.000Z"
      [] n = "7" -> "1970-01-01T00:00:00.007Z"
      [] OTHER -> "Invalid Date"

(* The cast of a path of type String. *)
castString(x) ==
    IF x.t = "number" THEN [err |-> FALSE, val |-> Str(x.v)]
    ELSE [err |-> FALSE, val |-> x]

(* The cast of a path of type Date. *)
castDate(x) ==
    IF x.t \in {"undefined", "null"} \/ x = Str("")
    THEN [err |-> FALSE, val |-> IF x.t = "undefined" THEN Undefined ELSE Null]
    ELSE LET iso == IF x.t = "number" THEN EpochDate(x.v) ELSE ParseDate(x.v)
         IN  IF iso = "Invalid Date"
             THEN [err |-> TRUE, val |-> Null]
             ELSE [err |-> FALSE, val |-> DateVal(iso)]

(* The schema: the cast of each path. *)
castPath(path, x) ==
    IF path = "dateOfBirth" THEN castDate(x) ELSE castString(x)

Paths == {"name", "email", "dateOfBirth"}

(* The required validator of a path: a String must be a non-empty string,  *)
(* a Date a date.                                                          *)
checkRequired(path, val) ==
    IF path = "dateOfBirth" THEN val.t = "date"
    ELSE val.t = "string" /\ val.v # ""

(* A collection without the unique index: no write duplicates a key. *)
NoUniqueIndex(coll, doc) == FALSE

(* The unique index on email: writing doc would duplicate a key. *)
DuplicateKey(coll, doc) ==
    \E u \in coll : u.id # doc.id /\ u.email = doc.email

(* The responses res.status(..).json(..) builds. *)
Response(status, message, error, docs) ==
    [status |-> status, message |-> message, error |-> error, users |-> docs]

NoResponse == Response(0, "", "none", {})

Init ==
    /\ users = {}
    /\ nextId = 1
    /\ pc = "idle"
    /\ req = NoRequest
    /\ res = NoResponse
    /\ before = {}
    /\ created = {}
    /\ pure = TRUE

(* A request reaches the router. *)
Receive(r) ==
    /\ pc = "idle"
    /\ r.op = "createUser" => nextId <= MaxId
    /\ pc' = "pending"
    /\ req' = r
    /\ UNCHANGED <<users, nextId, res, before, created, pure>>

(* The exchange is over. *)
EndRequest ==
    /\ pc = "done"
    /\ pc' = "idle"
    /\ req' = NoRequest
    /\ res' = NoResponse
    /\ before' = users
    /\ UNCHANGED <<users, nextId, created, pure>>

(* The handler answers: res.status(status).json({message, error, user}). *)
Reply(status, message, error, docs) ==
    /\ pc' = "done"
    /\ res' = Response(status, message, error, docs)
    /\ before' = users
    /\ req' = req

(* The collection is as it was, and so is the record of what made it. *)
Untouched == UNCHANGED <<users, created, pure>>

(* new User({name: email, email: name, dateOfBirth}): two paths exchanged. *)
NewUserExchanged(id, body) ==
    [id |-> id,
     name |-> castString(body.email).val,
     email |-> castString(body.name).val,
     dateOfBirth |-> castDate(body.dateOfBirth).val]

(* new User({name, email, dateOfBirth}): the document, its _id generated   *)
(* by the constructor and its paths cast by the schema.                    *)
NewUser(id, body) ==
    [id |-> id,
     name |-> castString(body.name).val,
     email |-> castString(body.email).val,
     dateOfBirth |-> castDate(body.dateOfBirth).val]

(* The validation save() runs first: a path that did not cast, or a        *)
(* required path without a value.                                          *)
ValidationFails(body) ==
    \E p \in Paths :
        castPath(p, body[p]).err \/ ~checkRequired(p, castPath(p, body[p]).val)

(* POST /createUser *)
CreateUser ==
    /\ pc = "pending"
    /\ req.op = "createUser"
    /\ LET body == req.body
           newUser == NewUser(nextId, body)
       IN  IF MissingField(body)
           THEN /\ Reply(400, "All fields are required.", "none", {})
                /\ Untouched
                /\ UNCHANGED nextId
           ELSE /\ nextId' = nextId + 1
                /\ IF ValidationFails(body)
                   THEN /\ Reply(500, "Error creating user", "ValidationError", {})
                        /\ Untouched
                   ELSE IF DuplicateKey(users, newUser)
                   THEN /\ Reply(500, "Error creating user", "MongoServerError", {})
                        /\ Untouched
                   ELSE /\ users' = users \cup {newUser}
                        /\ created' = IF pure
                                      THEN created \cup {[id |-> nextId, body |-> body]}
                                      ELSE created
                        /\ UNCHANGED pure
                        /\ Reply(201, "User created successfully", "none", {newUser})

(* User.findById...(id): the documents whose _id is the ObjectId of id. *)
FindById(coll, id) == {u \in coll : u.id = id}

(* A delete or an update went through: the collection is no longer the     *)
(* plain result of creates, unless it is empty again.                      *)
Touched(coll) ==
    /\ created' = {}
    /\ pure' = (coll = {})

(* DELETE /deleteUser/:id *)
DeleteUser ==
    /\ pc = "pending"
    /\ req.op = "deleteUser"
    /\ UNCHANGED nextId
    /\ LET id == req.id
           found == FindById(users, id)
       IN  IF ~isValid(id)
           THEN /\ Reply(500, "Error deleting user", "CastError", {})
                /\ Untouched
           ELSE IF found = {}
           THEN /\ Reply(404, "User not found", "none", {})
                /\ Untouched
           ELSE /\ users' = users \ found
                /\ Touched(users \ found)
                /\ Reply(200, "User deleted successfully", "none", found)

(* The keys of the update document: Mongoose removes those whose value is  *)
(* undefined.                                                              *)
SetPaths(body) == {p \in Paths : body[p] # Undefined}

(* The cast of the update throws for a value that does not cast. *)
CastUpdateFails(body) ==
    \E p \in SetPaths(body) : castPath(p, body[p]).err

(* The update without runValidators: no validator runs. *)
NoUpdateValidators(body) == FALSE

(* runValidators: the required validator of every path that is set. *)
UpdateValidatorsFail(body) ==
    \E p \in SetPaths(body) : ~checkRequired(p, castPath(p, body[p]).val)

(* The update as a replacement document: a path that is not set is lost. *)
ReplaceDoc(doc, body) ==
    [id |-> doc.id,
     name |-> castString(body.name).val,
     email |-> castString(body.email).val,
     dateOfBirth |-> castDate(body.dateOfBirth).val]

(* $set of the update's keys on a document. *)
ApplySet(doc, body) ==
    [id |-> doc.id,
     name |-> IF "name" \in SetPaths(body)
              THEN castString(body.name).val ELSE doc.name,
     email |-> IF "email" \in SetPaths(body)
               THEN castString(body.email).val ELSE doc.email,
     dateOfBirth |-> IF "dateOfBirth" \in SetPaths(body)
                     THEN castDate(body.dateOfBirth).val ELSE doc.dateOfBirth]

(* PUT /updateUser/:id *)
UpdateUser ==
    /\ pc = "pending"
    /\ req.op = "updateUser"
    /\ UNCHANGED nextId
    /\ LET id == req.id
           body == req.body
           found == FindById(users, id)
       IN  IF ~isValid(id)
           THEN /\ Reply(400, "Invalid user ID format", "none", {})
                /\ Untouched
           ELSE IF CastUpdateFails(body)
           THEN /\ Reply(500, "Error updating user", "CastError", {})
                /\ Untouched
           ELSE IF UpdateValidatorsFail(body)
           THEN /\ Reply(500, "Error updating user", "ValidationError", {})
                /\ Untouched
           ELSE IF found = {}
           THEN /\ Reply(404, "User not found", "none", {})
                /\ Untouched
           ELSE LET old == CHOOSE u \in found : TRUE
                    updatedUser == ApplySet(old, body)
                IN  IF DuplicateKey(users, updatedUser)
                    THEN /\ Reply(500, "Error updating user", "MongoServerError", {})
                         /\ Untouched
                    ELSE /\ users' = (users \ {old}) \cup {updatedUser}
                         /\ Touched((users \ {old}) \cup {updatedUser})
                         /\ Reply(200, "User updated successfully", "none", {updatedUser})

(* User.findOne() in place of User.find(): at most one document. *)
FindOne(coll) == IF coll = {} THEN {} ELSE {CHOOSE u \in coll : TRUE}

(* User.find(): every document of the collection. *)
Find(coll) == coll

(* GET /users *)
GetUsers ==
    /\ pc = "pending"
    /\ req.op = "getUsers"
    /\ Reply(200, "", "none", Find(users))
    /\ Untouched
    /\ UNCHANGED nextId

Next ==
    \/ \E r \in Requests : Receive(r)
    \/ CreateUser
    \/ DeleteUser
    \/ UpdateUser
    \/ GetUsers
    \/ EndRequest

Spec == Init /\ [][Next]_vars

TypeOK ==
    /\ nextId \in 1..(MaxId + 1)
    /\ pc \in {"idle", "pending", "done"}
    /\ \A u \in users : u.id \in 1..MaxId
    /\ res.status \in {0, 200, 201, 400, 404, 500}

(***************************************************************************)
(* Properties.                                                             *)
(***************************************************************************)

(* A handler has answered the request req with res; before is the          *)
(* collection it found and users the collection it left.                   *)
Handled(op) == pc = "done" /\ req.op = op

(* The value a stored document holds for what was submitted at a path. *)
Stored(path, x) == castPath(path, x).val

(* doc holds, path by path, what body submitted. *)
Matches(doc, body) == \A p \in Paths : doc[p] = Stored(p, body[p])

C2_MissingFieldRejected ==
    (Handled("createUser") /\ \E p \in Paths : req.body[p] = Undefined)
        => (res.status = 400 /\ users = before)

(* A create lacking only dateOfBirth was refused on a non-empty collection. *)
C2_Witness ==
    /\ Handled("createUser")
    /\ req.body.dateOfBirth = Undefined
    /\ ~Falsy(req.body.name) /\ ~Falsy(req.body.email)
    /\ res.status = 400
    /\ users # {} /\ users = before

(* C3: a POST /createUser with every field present and the email of a      *)
(* stored user fails with a conflict outcome, which is not the handler's   *)
(* answer to a generic storage error; nothing is persisted and the stored  *)
(* users are unchanged.                                                    *)
C3_DuplicateIsConflict ==
    (/\ Handled("createUser")
     /\ ~MissingField(req.body)
     /\ \E u \in before : u.email = Stored("email", req.body.email))
        => /\ res.status # 201
           /\ ~(res.status = 500 /\ res.message = "Error creating user")
           /\ users = before

(* C4: a missing field on create, a malformed identifier on update or      *)
(* delete, a supplied value that fails the schema's validation and a       *)
(* record that is not found are answered 400 or 404; 500 is answered only  *)
(* for an error of the document store itself.                              *)
C4_InputErrorsAre4xx ==
    pc = "done" =>
        /\ (req.op = "createUser" /\ MissingField(req.body))
              => res.status \in {400, 404}
        /\ (req.op \in {"updateUser", "deleteUser"} /\ ~isValid(req.id))
              => res.status \in {400, 404}
        /\ res.error \in {"CastError", "ValidationError"}
              => res.status \in {400, 404}
        /\ (req.op \in {"updateUser", "deleteUser"} /\ isValid(req.id)
                /\ FindById(before, req.id) = {} /\ res.error = "none")
              => res.status = 404
        /\ res.status = 500 => res.error = "MongoServerError"

(* C5: a DELETE /deleteUser/:id whose identifier matches no stored record  *)
(* is answered 404 and changes nothing; one that matches a record is       *)
(* answered 200 with that record, which is no longer stored.               *)
C5_DeleteOutcome ==
    Handled("deleteUser") =>
        IF FindById(before, req.id) = {}
        THEN res.status = 404 /\ users = before
        ELSE /\ res.status = 200
             /\ res.users = FindById(before, req.id)
             /\ users = before \ res.users
             /\ FindById(users, req.id) = {}

(* C6: a PUT /updateUser/:id with a malformed identifier is answered 400,  *)
(* one with a well-formed identifier that matches no record 404, and in    *)
(* both cases the collection is as it was.                                 *)
C6_UpdateRejected ==
    Handled("updateUser") =>
        /\ ~isValid(req.id) => (res.status = 400 /\ users = before)
        /\ (isValid(req.id) /\ FindById(before, req.id) = {})
              => (res.status = 404 /\ users = before)

C8_Created(doc) ==
    /\ res.status = 201
    /\ res.users = {doc}
    /\ \A u \in before : u.id # doc.id
    /\ Matches(doc, req.body)
    /\ users = before \cup {doc}

C10_RequiredFieldsStored ==
    \A u \in users :
        /\ u.name.t = "string" /\ u.name.v # ""
        /\ u.email.t = "string" /\ u.email.v # ""
        /\ u.dateOfBirth.t = "date"

(* An update of a stored user that nulls its name and omits the rest was   *)
(* handled.                                                                *)
C10_Witness ==
    /\ Handled("updateUser")
    /\ FindById(users, req.id) # {}
    /\ req.body.name = Null
    /\ req.body.email = Undefined
    /\ req.body.dateOfBirth = Undefined

====
